---- MODULE Spec2Model ----
(***************************************************************************)
(* A model of geoalchemy/geodb.py: the GeoDB spatial dialect.  The module  *)
(* holds the function-name mapping table, the two DDL hooks with the       *)
(* statements they execute on bind, the distance-predicate rewrite and the *)
(* attribute fallback of the comparator and of the persistent element.     *)
(***************************************************************************)
EXTENDS Integers, Sequences, FiniteSets, TLC

\* ------------------------------------------------------------------ bounds
\* The number of statements the bind log keeps (hook calls stop beyond it).
MaxLog == 2

\* ------------------------------------------------------------------ values
None == "None"

\* The GeoDBSpatialDialect instances; the table is an attribute of their class.
Instances == {"dialect_a", "dialect_b"}

\* The dialect objects a bind or a compiler may carry.
Dialects == {"GeoDBDialect", "SQLiteDialect"}

\* The errors bind.execute may raise.
Errors == {"OperationalError", "ProgrammingError"}

\* Tables, without and with a schema prefix.
Tables == { [name |-> "roads", schema |-> None],
            [name |-> "lakes", schema |-> "gis"] }

\* sqlalchemy's Table.fullname: the name, prefixed by the schema if one is set.
fullname(t) == IF t.schema = None THEN t.name ELSE t.schema \o "." \o t.name

\* The geometry columns: an indexed one and a plain one, on every table.
Columns ==
    { [class |-> "GeometryExtensionColumn", table |-> t, name |-> "geom",
       key |-> "geom", type |-> [spatial_index |-> TRUE, srid |-> 4326]] : t \in Tables }
    \cup
    { [class |-> "GeometryExtensionColumn", table |-> t, name |-> "loc",
       key |-> "loc", type |-> [spatial_index |-> FALSE, srid |-> 4326]] : t \in Tables }

\* Geometry operands that are no columns.
Elements == { [class |-> "WKTSpatialElement", desc |-> "POINT(0 0)", srid |-> 4326] }

Geoms == Columns \cup Elements

Distances == {0, 10}

\* ------------------------------------------------------------------- state
VARIABLES
    mapping,      \* the class attribute GeoDBSpatialDialect.__functions
    capability,   \* TRUE iff the class attribute supports_rtree was rebound to return True
    bindLog,      \* every statement bind.execute was given, with the hook call it came from
    op,           \* the operation called last
    args,         \* its arguments
    result,       \* the value it returned (None if it raised or returns nothing)
    raised,       \* the error it raised, or None
    stmts         \* the statements it gave to bind.execute, in order

vars == <<mapping, capability, bindLog, op, args, result, raised, stmts>>

\* ------------------------------------------------ the function-name mapping
Str(s) == [type |-> "str", value |-> s]
Function(n) == [type |-> "function", value |-> n]

\* The entries for the element types and the base functions.* operations.
base_entries ==
    ("WKTSpatialElement" :> Str("ST_GeomFromText")) @@
    ("WKBSpatialElement" :> Str("ST_GeomFromWKB")) @@
    ("functions.wkt" :> Str("ST_AsText")) @@
    ("functions.wkb" :> Str("")) @@
    ("functions.dimension" :> Str("ST_Dimension")) @@
    ("functions.srid" :> Str("ST_SRID")) @@
    ("functions.geometry_type" :> Str("ST_GeometryType")) @@
    ("functions.is_valid" :> Str("ST_IsValid")) @@
    ("functions.is_empty" :> Str("ST_IsEmpty")) @@
    ("functions.is_simple" :> Str("ST_IsSimple")) @@
    ("functions.is_closed" :> Str("ST_IsClosed")) @@
    ("functions.is_ring" :> Str("ST_IsRing")) @@
    ("functions.num_points" :> Str("ST_NumPoints")) @@
    ("functions.point_n" :> Str("ST_PointN")) @@
    ("functions.length" :> Str("ST_Length")) @@
    ("functions.area" :> Str("ST_Area")) @@
    ("functions.x" :> Str("ST_X")) @@
    ("functions.y" :> Str("ST_Y")) @@
    ("functions.centroid" :> Str("ST_Centroid")) @@
    ("functions.boundary" :> Str("ST_Boundary")) @@
    ("functions.buffer" :> Str("ST_Buffer")) @@
    ("functions.convex_hull" :> Str("ST_ConvexHull")) @@
    ("functions.envelope" :> Str("ST_Envelope")) @@
    ("functions.start_point" :> Str("ST_StartPoint")) @@
    ("functions.end_point" :> Str("ST_EndPoint")) @@
    ("functions.transform" :> Str("ST_Transform")) @@
    ("functions.equals" :> Str("ST_Equals")) @@
    ("functions.distance" :> Str("ST_Distance")) @@
    ("functions.within_distance" :> Str("ST_DWithin")) @@
    ("functions.disjoint" :> Str("ST_Disjoint")) @@
    ("functions.intersects" :> Str("ST_Intersects")) @@
    ("functions.touches" :> Str("ST_Touches")) @@
    ("functions.crosses" :> Str("ST_Crosses")) @@
    ("functions.within" :> Str("ST_Within")) @@
    ("functions.overlaps" :> Str("ST_Overlaps")) @@
    ("functions.gcontains" :> Str("ST_Contains")) @@
    ("functions.covers" :> Str("ST_Covers")) @@
    ("functions.covered_by" :> Str("ST_CoveredBy")) @@
    ("functions.intersection" :> Str("ST_Intersection")) @@
    ("functions.union" :> Str("ST_Union")) @@
    ("functions.collect" :> Str("ST_Collect")) @@
    ("functions.extent" :> Str("ST_Extent"))

\* The entries for the backend-specific operations and the compiler override.
backend_entries ==
    ("geodb_functions.svg" :> Str("AsSVG")) @@
    ("geodb_functions.fgf" :> Str("AsFGF")) @@
    ("mysql_functions.mbr_equal" :> Str("MBREqual")) @@
    ("mysql_functions.mbr_disjoint" :> Str("MBRDisjoint")) @@
    ("mysql_functions.mbr_intersects" :> Str("MBRIntersects")) @@
    ("mysql_functions.mbr_touches" :> Str("MBRTouches")) @@
    ("mysql_functions.mbr_within" :> Str("MBRWithin")) @@
    ("mysql_functions.mbr_overlaps" :> Str("MBROverlaps")) @@
    ("mysql_functions.mbr_contains" :> Str("MBRContains")) @@
    ("functions._within_distance" :> Function("geodb_functions._within_distance"))

\* A faulty table: the backend-specific entries left out.
__functions_base_only == base_entries

\* The class attribute GeoDBSpatialDialect.__functions, as the dict literal builds it.
__functions == base_entries @@ backend_entries

\* The operations the framework may request from this backend: the element types,
\* the base operations, the inherited mbr_* operations, svg and fgf.
RequestableOps ==
    {"WKTSpatialElement", "WKBSpatialElement"}
    \cup {"functions." \o n : n \in
            { "wkt", "wkb", "dimension", "srid", "geometry_type", "is_valid",
              "is_empty", "is_simple", "is_closed", "is_ring", "num_points",
              "point_n", "length", "area", "x", "y", "centroid", "boundary",
              "buffer", "convex_hull", "envelope", "start_point", "end_point",
              "transform", "equals", "distance", "within_distance", "disjoint",
              "intersects", "touches", "crosses", "within", "overlaps",
              "gcontains", "covers", "covered_by", "intersection", "union",
              "collect", "extent", "_within_distance" }}
    \cup {"geodb_functions.svg", "geodb_functions.fgf"}
    \cup {"mysql_functions." \o n : n \in
            { "mbr_equal", "mbr_disjoint", "mbr_intersects", "mbr_touches",
              "mbr_within", "mbr_overlaps", "mbr_contains" }}

\* _get_function_mapping returns the class attribute itself, not a copy.
_get_function_mapping(self) == mapping

\* -------------------------------------------------------- the capability flag
\* A faulty capability: index tables reported as supported.
supports_rtree_enabled(dialect) == TRUE

\* The staticmethod as shipped.
supports_rtree(dialect) == FALSE

\* The call GeoDBSpatialDialect.supports_rtree(dialect): the attribute is looked
\* up on the class at every call, so a rebound attribute answers instead.
call_supports_rtree(dialect) ==
    IF capability THEN TRUE ELSE supports_rtree(dialect)

\* ------------------------------------------------------------- bind.execute
\* A bind whose failAt-th execute of a hook call raises err (0: none raises).
Binds ==
    [dialect : Dialects, failAt : {0}, err : {None}]
    \cup [dialect : Dialects, failAt : 1..2, err : Errors]

\* A hook call before its first statement.
Start == [executed |-> <<>>, raised |-> None]

\* bind.execute(stmt) in a hook call that has come as far as x.
bind_execute(bind, x, stmt) ==
    [executed |-> Append(x.executed, stmt),
     raised   |-> IF Len(x.executed) + 1 = bind.failAt THEN bind.err ELSE None]

\* A statement given as a string (surrounding white space left out).
Text(sql) == [kind |-> "text", sql |-> sql]

\* select([func.DisableSpatialIndex(a, b)]).execution_options(autocommit=True)
DisableSpatialIndexStmt(table, column) ==
    [kind |-> "select",
     columns |-> <<[func |-> "DisableSpatialIndex", args |-> <<table.name, column.name>>]>>,
     autocommit |-> TRUE]

DropIndexTableStmt(table, column) ==
    Text("DROP TABLE idx_" \o table.name \o "_" \o column.name)

AlterTableStmt(table, column) ==
    Text("ALTER TABLE " \o table.name \o " ADD " \o column.name \o " BLOB")

CreateSpatialIndexStmt(table, column) ==
    Text("SELECT CreateSpatialIndex(null, '\"" \o table.name \o "\"', '\""
         \o column.name \o "\"', '\"" \o ToString(column.type.srid) \o "\"')\"")

\* ---------------------------------------------------------------- DDL hooks
\* A faulty hook: errors of bind.execute caught and dropped.
handle_ddl_before_drop_swallow(self, bind, table, column) ==
    IF column.type.spatial_index /\ call_supports_rtree(bind.dialect)
    THEN LET x1 == bind_execute(bind, Start, DisableSpatialIndexStmt(table, column))
             x2 == bind_execute(bind, x1, DropIndexTableStmt(table, column))
         IN  [x2 EXCEPT !.raised = None]
    ELSE Start

\* A faulty hook: the index table dropped before the index is disabled.
handle_ddl_before_drop_reversed(self, bind, table, column) ==
    IF column.type.spatial_index /\ call_supports_rtree(bind.dialect)
    THEN LET x1 == bind_execute(bind, Start, DropIndexTableStmt(table, column))
         IN  IF x1.raised # None THEN x1
             ELSE bind_execute(bind, x1, DisableSpatialIndexStmt(table, column))
    ELSE Start

\* An error raised by the first execute leaves the hook: nothing catches it.
handle_ddl_before_drop(self, bind, table, column) ==
    IF column.type.spatial_index /\ call_supports_rtree(bind.dialect)
    THEN LET x1 == bind_execute(bind, Start, DisableSpatialIndexStmt(table, column))
         IN  IF x1.raised # None THEN x1
             ELSE bind_execute(bind, x1, DropIndexTableStmt(table, column))
    ELSE Start

\* A faulty hook: the index built before the column is added.
handle_ddl_after_create_index_first(self, bind, table, column) ==
    IF column.type.spatial_index /\ call_supports_rtree(bind.dialect)
    THEN LET x1 == bind_execute(bind, Start, CreateSpatialIndexStmt(table, column))
         IN  IF x1.raised # None THEN x1
             ELSE bind_execute(bind, x1, AlterTableStmt(table, column))
    ELSE bind_execute(bind, Start, AlterTableStmt(table, column))

handle_ddl_after_create(self, bind, table, column) ==
    LET x1 == bind_execute(bind, Start, AlterTableStmt(table, column))
    IN  IF x1.raised # None THEN x1
        ELSE IF column.type.spatial_index /\ call_supports_rtree(bind.dialect)
             THEN bind_execute(bind, x1, CreateSpatialIndexStmt(table, column))
             ELSE x1

\* ------------------------------------------------ the distance-predicate rewrite
Func(name, a) == [func |-> name, args |-> a]
Cmp(o, l, r) == [op |-> o, left |-> l, right |-> r]
Arith(o, l, r) == [op |-> o, left |-> l, right |-> r]
and_(a, b) == [op |-> "and_", clauses |-> <<a, b>>]

\* func.Distance(geom1, geom2) <= distance
DistancePredicate(geom1, geom2, distance) ==
    Cmp("<=", Func("Distance", <<geom1, geom2>>), distance)

\* The name of the index table the rewrite selects from.
RewriteIndexTable(geom1) == "idx_" \o fullname(geom1.table) \o "_" \o geom1.key

\* table(fullname, column("rowid")).c.rowid.in_(select([idx.pkid]).where(...))
BoundingBoxFilter(geom1, geom2, distance) ==
    [op |-> "in_",
     left |-> [table |-> fullname(geom1.table), column |-> "rowid"],
     select |->
        [columns |-> <<[table |-> RewriteIndexTable(geom1), column |-> "pkid"]>>,
         where |->
            and_(Cmp(">=", "xmin", Arith("-", Func("MbrMinX", <<geom2>>), distance)),
            and_(Cmp("<=", "xmax", Arith("+", Func("MbrMaxX", <<geom2>>), distance)),
            and_(Cmp(">=", "ymin", Arith("-", Func("MbrMinY", <<geom2>>), distance)),
                 Cmp("<=", "ymax", Arith("+", Func("MbrMaxY", <<geom2>>), distance)))))]]

\* A faulty rewrite: the bounding-box filter in place of the exact predicate.
_within_distance_filter_only(compiler, geom1, geom2, distance) ==
    IF /\ geom1.class = "GeometryExtensionColumn"
       /\ geom1.type.spatial_index
       /\ call_supports_rtree(compiler.dialect)
    THEN BoundingBoxFilter(geom1, geom2, distance)
    ELSE DistancePredicate(geom1, geom2, distance)

_within_distance(compiler, geom1, geom2, distance) ==
    IF /\ geom1.class = "GeometryExtensionColumn"
       /\ geom1.type.spatial_index
       /\ call_supports_rtree(compiler.dialect)
    THEN and_(DistancePredicate(geom1, geom2, distance),
              BoundingBoxFilter(geom1, geom2, distance))
    ELSE DistancePredicate(geom1, geom2, distance)

\* ------------------------------------------------------ result materialization
WkbValues == {"wkb:0101"}

process_result(self, value, type) ==
    [class |-> "GeoDBPersistentSpatialElement",
     desc  |-> [class |-> "WKBSpatialElement", desc |-> value, srid |-> type.srid]]

\* ---------------------------------------------------------- attribute lookup
\* The names looked up: base operations, backend operations, an unknown one.
AttrNames == {"wkt", "_within_distance", "svg", "fgf", "mbr_within", "nosuch"}

\* The attributes of the base class functions that the dialect refers to.
functions_names ==
    { "wkt", "wkb", "dimension", "srid", "geometry_type", "is_valid", "is_empty",
      "is_simple", "is_closed", "is_ring", "num_points", "point_n", "length",
      "area", "x", "y", "centroid", "boundary", "buffer", "convex_hull",
      "envelope", "start_point", "end_point", "transform", "equals", "distance",
      "within_distance", "disjoint", "intersects", "touches", "crosses", "within",
      "overlaps", "gcontains", "covers", "covered_by", "intersection", "union",
      "collect", "extent", "_within_distance" }

\* The function classes geodb_functions inherits from mysql_functions.
mysql_functions_names ==
    { "mbr_equal", "mbr_disjoint", "mbr_intersects", "mbr_touches", "mbr_within",
      "mbr_overlaps", "mbr_contains" }

\* The function classes geodb_functions defines or inherits.
geodb_functions_classes == {"svg", "fgf"} \cup mysql_functions_names

Returned(v) == [raised |-> None, value |-> v]
Raised(e) == [raised |-> e, value |-> None]

\* The lookup of the base classes (SpatialComparator, PersistentSpatialElement):
\* the name among the base operations, or an AttributeError.
base__getattr__(self, name) ==
    IF name \in functions_names
    THEN Returned([class |-> "functions." \o name, by |-> "base"])
    ELSE Raised("AttributeError")

\* getattr(geodb_functions, name)(self)
geodb_functions_apply(name, self) ==
    IF name \in geodb_functions_classes
    THEN Returned([class |-> "geodb_functions." \o name, args |-> <<self>>])
    ELSE IF name = "_within_distance"
         THEN Raised("TypeError")
         ELSE Raised("AttributeError")

\* A faulty lookup: an unknown name yields None instead of an error.
GeoDBComparator__getattr__none(self, name) ==
    LET base == base__getattr__(self, name)
    IN  IF base.raised = "AttributeError"
        THEN IF name \in geodb_functions_classes
             THEN geodb_functions_apply(name, self)
             ELSE Returned(None)
        ELSE base

GeoDBComparator__getattr__(self, name) ==
    LET base == base__getattr__(self, name)
    IN  IF base.raised = "AttributeError"
        THEN geodb_functions_apply(name, self)
        ELSE base

GeoDBPersistentSpatialElement__getattr__(self, name) ==
    LET base == base__getattr__(self, name)
    IN  IF base.raised = "AttributeError"
        THEN geodb_functions_apply(name, self)
        ELSE base

\* The receivers of the attribute lookups.
Comparators == { [class |-> "GeoDBComparator", prop |-> c.name] : c \in Columns }
PersistentElements ==
    { process_result("dialect_a", v, c.type) : v \in WkbValues, c \in Columns }

\* ------------------------------------------------------------------ actions
NoArgs == [self |-> None]

\* A faulty getter: it removes an entry from the table it returns.
GetFunctionMappingPopping ==
    \E self \in Instances :
        /\ op' = "_get_function_mapping"
        /\ args' = [self |-> self]
        /\ result' = _get_function_mapping(self)
        /\ raised' = None
        /\ stmts' = <<>>
        /\ mapping' = [k \in DOMAIN mapping \ {"functions.wkb"} |-> mapping[k]]
        /\ UNCHANGED <<capability, bindLog>>

GetFunctionMapping ==
    \E self \in Instances :
        /\ op' = "_get_function_mapping"
        /\ args' = [self |-> self]
        /\ result' = _get_function_mapping(self)
        /\ raised' = None
        /\ stmts' = <<>>
        /\ UNCHANGED <<mapping, capability, bindLog>>

ProcessResult ==
    \E self \in Instances, value \in WkbValues, c \in Columns :
        /\ op' = "process_result"
        /\ args' = [self |-> self, value |-> value, type |-> c.type]
        /\ result' = process_result(self, value, c.type)
        /\ raised' = None
        /\ stmts' = <<>>
        /\ UNCHANGED <<mapping, capability, bindLog>>

LogEntries(hook, table, column, executed) ==
    [i \in 1..Len(executed) |->
        [hook |-> hook, table |-> table, column |-> column, stmt |-> executed[i]]]

HandleDdlBeforeDrop ==
    \E self \in Instances, bind \in Binds, column \in Columns :
        LET table == column.table
            x == handle_ddl_before_drop(self, bind, table, column)
        IN  /\ Len(bindLog) + Len(x.executed) <= MaxLog
            /\ op' = "handle_ddl_before_drop"
            /\ args' = [self |-> self, bind |-> bind, table |-> table, column |-> column]
            /\ result' = None
            /\ raised' = x.raised
            /\ stmts' = x.executed
            /\ bindLog' = bindLog \o
                    LogEntries("handle_ddl_before_drop", table, column, x.executed)
            /\ UNCHANGED <<mapping, capability>>

HandleDdlAfterCreate ==
    \E self \in Instances, bind \in Binds, column \in Columns :
        LET table == column.table
            x == handle_ddl_after_create(self, bind, table, column)
        IN  /\ Len(bindLog) + Len(x.executed) <= MaxLog
            /\ op' = "handle_ddl_after_create"
            /\ args' = [self |-> self, bind |-> bind, table |-> table, column |-> column]
            /\ result' = None
            /\ raised' = x.raised
            /\ stmts' = x.executed
            /\ bindLog' = bindLog \o
                    LogEntries("handle_ddl_after_create", table, column, x.executed)
            /\ UNCHANGED <<mapping, capability>>

SupportsRtree ==
    \E dialect \in Dialects :
        /\ op' = "supports_rtree"
        /\ args' = [dialect |-> dialect]
        /\ result' = call_supports_rtree(dialect)
        /\ raised' = None
        /\ stmts' = <<>>
        /\ UNCHANGED <<mapping, capability, bindLog>>

WithinDistance ==
    \E dialect \in Dialects, geom1 \in Geoms, geom2 \in Elements, distance \in Distances :
        /\ op' = "_within_distance"
        /\ args' = [compiler |-> [dialect |-> dialect], geom1 |-> geom1,
                    geom2 |-> geom2, distance |-> distance]
        /\ result' = _within_distance([dialect |-> dialect], geom1, geom2, distance)
        /\ raised' = None
        /\ stmts' = <<>>
        /\ UNCHANGED <<mapping, capability, bindLog>>

ComparatorGetattr ==
    \E self \in Comparators, name \in AttrNames :
        LET r == GeoDBComparator__getattr__(self, name)
        IN  /\ op' = "GeoDBComparator.__getattr__"
            /\ args' = [self |-> self, name |-> name]
            /\ result' = r.value
            /\ raised' = r.raised
            /\ stmts' = <<>>
            /\ UNCHANGED <<mapping, capability, bindLog>>

ElementGetattr ==
    \E self \in PersistentElements, name \in AttrNames :
        LET r == GeoDBPersistentSpatialElement__getattr__(self, name)
        IN  /\ op' = "GeoDBPersistentSpatialElement.__getattr__"
            /\ args' = [self |-> self, name |-> name]
            /\ result' = r.value
            /\ raised' = r.raised
            /\ stmts' = <<>>
            /\ UNCHANGED <<mapping, capability, bindLog>>

\* The module after import: the table built, nothing executed.
Loaded ==
    /\ mapping = __functions
    /\ bindLog = <<>>
    /\ op = "import"
    /\ args = NoArgs
    /\ result = None
    /\ raised = None
    /\ stmts = <<>>

\* The module as shipped.
Init == Loaded /\ capability = FALSE

\* The module with the capability either as shipped or enabled.
InitCap == Loaded /\ capability \in BOOLEAN

Next ==
    \/ GetFunctionMapping
    \/ ProcessResult
    \/ HandleDdlBeforeDrop
    \/ HandleDdlAfterCreate
    \/ SupportsRtree
    \/ WithinDistance
    \/ ComparatorGetattr
    \/ ElementGetattr

Spec == Init /\ [][Next]_vars

SpecCap == InitCap /\ [][Next]_vars

\* ------------------------------------------------------------------ claims
IsHook == op \in {"handle_ddl_before_drop", "handle_ddl_after_create"}

\* The column of the call is indexed and the capability is enabled.
IndexedAndEnabled == args.column.type.spatial_index /\ capability

\* C1: whatever the operands, the column's spatial_index flag and the capability,
\* the expression _within_distance returns contains Distance(geom1, geom2) <=
\* distance: it is the whole result on the simple path, and on the indexed path
\* the result is an AND of that predicate and the sub-select on the idx_ table.
C1_ExactPredicateIncluded ==
    op = "_within_distance" =>
        LET exact == [op |-> "<=",
                      left |-> [func |-> "Distance", args |-> <<args.geom1, args.geom2>>],
                      right |-> args.distance]
            indexed == /\ args.geom1.class = "GeometryExtensionColumn"
                       /\ args.geom1.type.spatial_index
                       /\ capability
        IN  IF indexed
            THEN /\ result.op = "and_"
                 /\ Len(result.clauses) = 2
                 /\ result.clauses[1] = exact
                 /\ result.clauses[2].op = "in_"
                 /\ result.clauses[2].select.columns[1].column = "pkid"
            ELSE result = exact

\* The indexed path was taken.
C1_Witness ==
    /\ op = "_within_distance"
    /\ result.op = "and_"
    /\ args.distance = 10

\* C2: as shipped, supports_rtree answers False for every dialect, so for every
\* geom1, column or not, indexed or not, the result of _within_distance is exactly
\* the simple predicate Distance(geom1, geom2) <= distance.
C2_SimplePathAlways ==
    /\ op = "supports_rtree" => result = FALSE
    /\ op = "_within_distance" =>
          result = [op |-> "<=",
                    left |-> [func |-> "Distance", args |-> <<args.geom1, args.geom2>>],
                    right |-> args.distance]

\* The rewrite was asked for an indexed geometry column.
C2_Witness ==
    /\ op = "_within_distance"
    /\ args.geom1.class = "GeometryExtensionColumn"
    /\ args.geom1.type.spatial_index
    /\ result.op = "<="

\* C3: handle_ddl_after_create executes, for a column without spatial index,
\* exactly the ALTER TABLE <table.name> ADD <column.name> BLOB statement; for an
\* indexed column with the capability enabled (and the ALTER TABLE not failing)
\* exactly two: the ALTER TABLE, then the CreateSpatialIndex statement for the
\* same table, column and srid.
C3_AfterCreateStatements ==
    op = "handle_ddl_after_create" =>
        LET t == args.table.name
            c == args.column.name
            alter == [kind |-> "text", sql |-> "ALTER TABLE " \o t \o " ADD " \o c \o " BLOB"]
            create == [kind |-> "text",
                       sql |-> "SELECT CreateSpatialIndex(null, '\"" \o t \o "\"', '\"" \o c
                               \o "\"', '\"" \o ToString(args.column.type.srid) \o "\"')\""]
        IN  /\ ~args.column.type.spatial_index => stmts = <<alter>>
            /\ (IndexedAndEnabled /\ args.bind.failAt # 1) => stmts = <<alter, create>>

\* An indexed column was created with the capability enabled.
C3_Witness ==
    /\ op = "handle_ddl_after_create"
    /\ Len(stmts) = 2
    /\ raised = None

\* C4: handle_ddl_before_drop executes nothing for a column without spatial
\* index; for an indexed column with the capability enabled (and the first
\* statement not failing) it executes exactly SELECT DisableSpatialIndex(
\* table.name, column.name) and then DROP TABLE idx_<table.name>_<column.name>,
\* both on the bind's log when the hook returns.
C4_BeforeDropStatements ==
    op = "handle_ddl_before_drop" =>
        LET t == args.table.name
            c == args.column.name
            disable == [kind |-> "select",
                        columns |-> <<[func |-> "DisableSpatialIndex", args |-> <<t, c>>]>>,
                        autocommit |-> TRUE]
            drop == [kind |-> "text", sql |-> "DROP TABLE idx_" \o t \o "_" \o c]
            n == Len(bindLog)
        IN  /\ ~args.column.type.spatial_index => stmts = <<>>
            /\ (IndexedAndEnabled /\ args.bind.failAt # 1) =>
                  /\ stmts = <<disable, drop>>
                  /\ n >= 2
                  /\ bindLog[n - 1].stmt = disable
                  /\ bindLog[n].stmt = drop

\* An indexed column was dropped with the capability enabled.
C4_Witness ==
    /\ op = "handle_ddl_before_drop"
    /\ Len(stmts) = 2
    /\ raised = None

IsSqlFunctionName(v) == v.type = "str" /\ v.value # ""
IsCallable(v) == v.type = "function"

\* C5 as stated: for every operation the framework may request, the table that
\* _get_function_mapping returns has an entry, and the entry is either a SQL
\* function name or a callable.
C5_NameOrCallable ==
    op = "_get_function_mapping" =>
        \A o \in RequestableOps :
            /\ o \in DOMAIN result
            /\ IsSqlFunctionName(result[o]) \/ IsCallable(result[o])

\* C5, amended: for every operation the framework may request, the table that
\* _get_function_mapping returns has an entry, and the entry is a SQL function
\* name, a callable, or (for functions.wkb only) the empty string.
C5_NameEmptyOrCallable ==
    op = "_get_function_mapping" =>
        \A o \in RequestableOps :
            /\ o \in DOMAIN result
            /\ \/ IsSqlFunctionName(result[o])
               \/ IsCallable(result[o])
               \/ o = "functions.wkb" /\ result[o] = [type |-> "str", value |-> ""]

\* The table was fetched: it holds a name, the empty string and the callable.
C5_Witness ==
    /\ op = "_get_function_mapping"
    /\ result["functions.wkb"].value = ""
    /\ result["functions._within_distance"].type = "function"
    /\ result["geodb_functions.svg"].value = "AsSVG"

\* C6: neither hook catches or retries: if an execute fails, its error is the
\* one the hook raises, the failed statement is the last one executed (no later
\* statement follows it), a hook that raises nothing had no failing execute, and
\* no statement is executed twice in one call.
C6_ErrorsPropagate ==
    IsHook =>
        /\ args.bind.failAt \in 1..Len(stmts) =>
              /\ raised = args.bind.err
              /\ Len(stmts) = args.bind.failAt
        /\ raised # None => args.bind.failAt = Len(stmts)
        /\ \A i, j \in 1..Len(stmts) : stmts[i] = stmts[j] => i = j

\* DisableSpatialIndex failed and DROP TABLE was not executed.
C6_Witness ==
    /\ op = "handle_ddl_before_drop"
    /\ raised = "ProgrammingError"
    /\ Len(stmts) = 1
    /\ stmts[1].kind = "select"

\* C7: after any sequence of calls, on any instance, the mapping table has the
\* keys and the values it had at construction.
C7_MappingUnchanged ==
    /\ DOMAIN mapping = DOMAIN __functions
    /\ \A k \in DOMAIN __functions : mapping[k] = __functions[k]

\* Hooks ran, instances fetched the table, and another call followed.
C7_Witness ==
    /\ Len(bindLog) >= 2
    /\ op = "_get_function_mapping"
    /\ args.self = "dialect_b"
    /\ result = __functions

\* C8: an attribute lookup on the comparator or on the persistent element yields
\* the base operation when the base set has the name; otherwise the
\* geodb_functions class of that name applied to the receiver; and a name in
\* neither set raises AttributeError and returns nothing.
C8_LookupFallsBack ==
    op \in {"GeoDBComparator.__getattr__", "GeoDBPersistentSpatialElement.__getattr__"} =>
        LET inBase == args.name \in functions_names
            inBackend == args.name \in ({"svg", "fgf"} \cup mysql_functions_names)
        IN  /\ inBase => raised = None /\ result.by = "base"
            /\ (~inBase /\ inBackend) =>
                  /\ raised = None
                  /\ result = [class |-> "geodb_functions." \o args.name,
                               args |-> <<args.self>>]
            /\ (~inBase /\ ~inBackend) => raised = "AttributeError" /\ result = None

\* A name of neither set was looked up on a comparator.
C8_Witness ==
    /\ op = "GeoDBComparator.__getattr__"
    /\ args.name = "nosuch"
    /\ raised = "AttributeError"

\* C9: as shipped, every handle_ddl_after_create call executes exactly the ALTER
\* TABLE statement, every handle_ddl_before_drop call executes nothing, and the
\* bind never sees a CreateSpatialIndex, DisableSpatialIndex or DROP TABLE idx_
\* statement, whatever the column's spatial_index flag.
C9_ShippedDdl ==
    LET alter(t, c) == [kind |-> "text",
                        sql |-> "ALTER TABLE " \o t.name \o " ADD " \o c.name \o " BLOB"]
    IN  /\ op = "handle_ddl_after_create" => stmts = <<alter(args.table, args.column)>>
        /\ op = "handle_ddl_before_drop" => stmts = <<>>
        /\ \A i \in 1..Len(bindLog) :
              /\ bindLog[i].hook = "handle_ddl_after_create"
              /\ bindLog[i].stmt = alter(bindLog[i].table, bindLog[i].column)

\* Indexed columns were created and one is being dropped.
C9_Witness ==
    /\ op = "handle_ddl_before_drop"
    /\ args.column.type.spatial_index
    /\ Len(bindLog) >= 2
    /\ bindLog[1].column.type.spatial_index

\* C10: the index table the rewrite selects from for an indexed column is the
\* table handle_ddl_before_drop removed for that column, and the table of the
\* (table.name, column.name) that handle_ddl_after_create built the index for.
C10_SameIndexTable ==
    (op = "_within_distance" /\ result.op = "and_") =>
        LET queried == result.clauses[2].select.columns[1].table
        IN  \A i \in 1..Len(bindLog) :
                LET e == bindLog[i]
                    alter == [kind |-> "text",
                              sql |-> "ALTER TABLE " \o e.table.name \o " ADD "
                                      \o e.column.name \o " BLOB"]
                IN  e.column = args.geom1 =>
                        /\ (e.hook = "handle_ddl_before_drop" /\ e.stmt.kind = "text") =>
                              e.stmt.sql = "DROP TABLE " \o queried
                        /\ (e.hook = "handle_ddl_after_create" /\ e.stmt # alter) =>
                              queried = "idx_" \o e.table.name \o "_" \o e.column.name

====
